---------------------------- MODULE Spec2Model ----------------------------
(***************************************************************************)
(* A model of axlearn/common/serialization.py: the registry of            *)
(* (to_state_dict, from_state_dict) converter pairs, the recursive        *)
(* conversion of Python values to and from state dicts, and the           *)
(* thread-local path that from_state_dict keeps for its error messages.   *)
(***************************************************************************)
EXTENDS Integers, Sequences, FiniteSets, TLC

VARIABLES
    STATE_DICT_REGISTRY, \* _STATE_DICT_REGISTRY: type tag -> <<to fn, from fn>>
    error_context,       \* _error_context: per-thread storage slot -> path list
    pc,                  \* thread -> "idle" | "encoded" | "decoding" | "raising" | "done"
    target,              \* thread -> the value the thread converts
    encoded,             \* thread -> what to_state_dict(target) returned or raised
    state,               \* thread -> the state dict handed to from_state_dict
    stack,               \* thread -> the active from_state_dict calls, outermost first
    result,              \* thread -> what the top-level from_state_dict returned or raised
    touched,             \* history: thread -> number of appends and pops it made on a path
    raised_in,           \* history: thread -> names of the calls active when it raised
    encoded_at,          \* history: thread -> length of reg_log when it called to_state_dict
    reg_log              \* history of the register_serialization_state calls

vars == <<STATE_DICT_REGISTRY, error_context, pc, target, encoded, state,
          stack, result, touched, raised_in, encoded_at, reg_log>>

-----------------------------------------------------------------------------
(* Bounds of the model.                                                    *)

\* Longest list or tuple among the generated targets.
MaxLen == 2

\* Most register_serialization_state calls made after the module's own.
MaxRegs == 2

Threads == {"t1", "t2"}

-----------------------------------------------------------------------------
(* Python values.  Every value is a record whose ty field names its kind.  *)
(* A dict is its sequence of <<key, value>> items in insertion order, with *)
(* pairwise distinct keys.                                                 *)

PyNone == [ty |-> "NoneType"]
PyInt(n) == [ty |-> "int", n |-> n]
PyStr(s) == [ty |-> "str", s |-> s]
PyList(xs) == [ty |-> "list", xs |-> xs]
PyTuple(xs) == [ty |-> "tuple", xs |-> xs]
PyDict(kv) == [ty |-> "dict", kv |-> kv]
PyOrderedDict(kv) == [ty |-> "OrderedDict", kv |-> kv]
PyNamedTuple(cls, fields, vals) ==
    [ty |-> "namedtuple", cls |-> cls, fields |-> fields, vals |-> vals]
PyPartial(func, args, keywords) ==
    [ty |-> "Partial", func |-> func, args |-> PyTuple(args), keywords |-> PyDict(keywords)]

\* A raised exception: its class, which message it carries, and the path the
\* message embeds (has_path is FALSE for the messages that embed none).
Raise(exc, what) == [ty |-> "raise", exc |-> exc, what |-> what, has_path |-> FALSE, path |-> ""]
RaiseAt(exc, what, path) ==
    [ty |-> "raise", exc |-> exc, what |-> what, has_path |-> TRUE, path |-> path]
IsRaise(x) == x.ty = "raise"

\* isinstance(x, dict): dict and its subclasses.
IsDict(x) == x.ty \in {"dict", "OrderedDict"}

\* str() of a non-negative int: its decimal digits.
Digit(d) ==
    CASE d = 0 -> "0" [] d = 1 -> "1" [] d = 2 -> "2" [] d = 3 -> "3" [] d = 4 -> "4"
      [] d = 5 -> "5" [] d = 6 -> "6" [] d = 7 -> "7" [] d = 8 -> "8" [] d = 9 -> "9"

RECURSIVE IntToStr(_)
IntToStr(n) == IF n < 10 THEN Digit(n) ELSE IntToStr(n \div 10) \o Digit(n % 10)

\* str(k) for the keys the model uses: an int or a str.
str(k) == IF k.ty = "int" THEN IntToStr(k.n) ELSE k.s

\* dict operations on the item sequence.
DictKeys(kv) == {kv[i][1] : i \in DOMAIN kv}
DictHas(kv, k) == \E i \in DOMAIN kv : kv[i][1] = k
DictGet(kv, k) == kv[CHOOSE i \in DOMAIN kv : kv[i][1] = k][2]
\* d[k] = v: a present key keeps its position and takes the new value.
DictSet(kv, k, v) ==
    IF DictHas(kv, k)
    THEN [i \in DOMAIN kv |-> IF kv[i][1] = k THEN <<k, v>> ELSE kv[i]]
    ELSE Append(kv, <<k, v>>)

\* "/".join(path)
RECURSIVE Join(_)
Join(path) ==
    IF path = <<>> THEN ""
    ELSE IF Len(path) = 1 THEN path[1]
    ELSE path[1] \o "/" \o Join(Tail(path))

-----------------------------------------------------------------------------
(* Type tags and the registry.                                             *)

is_namedtuple(x) == x.ty = "namedtuple"

\* The key to_state_dict and from_state_dict look up: _NamedTuple for every
\* namedtuple instance, otherwise type(target).
TypeTag(x) ==
    IF is_namedtuple(x) THEN "_NamedTuple"
    ELSE IF x.ty = "object" THEN x.cls
    ELSE x.ty

\* The registry after the module's five registrations.
BuiltinRegistry ==
    [tag \in {"dict", "list", "tuple", "_NamedTuple", "Partial"} |->
        CASE tag = "dict" -> <<"_dict_state_dict", "_restore_dict">>
          [] tag = "list" -> <<"_list_state_dict", "_restore_list">>
          [] tag = "tuple" -> <<"_list_state_dict", "_restore_tuple">>
          [] tag = "_NamedTuple" -> <<"_namedtuple_state_dict", "_restore_namedtuple">>
          [] tag = "Partial" -> <<"_partial_state_dict", "_restore_partial">>]


-----------------------------------------------------------------------------
(* to_state_dict and the to-state functions.  They read the registry and   *)
(* nothing else, so each is an operator evaluated in the current state.    *)
(* An operator returns the Python value the function returns, or the       *)
(* exception it raises.                                                    *)

RECURSIVE to_state_dict(_)

\* The dict comprehension {key: to_state_dict(child) for ...} over the given
\* <<key, child>> entries, left to right; the first raise ends it.
RECURSIVE StateDictOf(_, _)
StateDictOf(entries, acc) ==
    IF entries = <<>> THEN PyDict(acc)
    ELSE LET e == Head(entries)
             v == to_state_dict(e[2])
         IN  IF IsRaise(v) THEN v
             ELSE StateDictOf(Tail(entries), DictSet(acc, e[1], v))

\* What iterating over x yields: the elements of a list, tuple or namedtuple,
\* the keys of a dict.
Elements(x) ==
    CASE x.ty \in {"list", "tuple"} -> x.xs
      [] x.ty = "namedtuple" -> x.vals
      [] x.ty \in {"dict", "OrderedDict"} -> [i \in DOMAIN x.kv |-> x.kv[i][1]]

\* _list_state_dict with the keys counted from one.
list_state_dict_from_one(xs) ==
    IF xs.ty \in {"int", "NoneType", "object"}
    THEN Raise("TypeError", "object is not iterable")
    ELSE StateDictOf([i \in DOMAIN Elements(xs) |->
                        <<PyStr(IntToStr(i)), Elements(xs)[i]>>], <<>>)

list_state_dict(xs) ==
    IF xs.ty \in {"int", "NoneType", "object"}
    THEN Raise("TypeError", "object is not iterable")
    ELSE StateDictOf([i \in DOMAIN Elements(xs) |->
                        <<PyStr(IntToStr(i - 1)), Elements(xs)[i]>>], <<>>)

\* _dict_state_dict without the test of lines 146-149.
dict_state_dict_unguarded(xs) ==
    StateDictOf([i \in DOMAIN xs.kv |-> <<PyStr(str(xs.kv[i][1])), xs.kv[i][2]>>], <<>>)

dict_state_dict(xs) ==
    LET str_keys == {str(k) : k \in DictKeys(xs.kv)}
    IN  IF Cardinality(str_keys) # Len(xs.kv)
        THEN Raise("ValueError", "dict keys do not have a unique string representation")
        ELSE StateDictOf([i \in DOMAIN xs.kv |->
                            <<PyStr(str(xs.kv[i][1])), xs.kv[i][2]>>], <<>>)

namedtuple_state_dict(xs) ==
    StateDictOf([i \in DOMAIN xs.fields |-> <<PyStr(xs.fields[i]), xs.vals[i]>>], <<>>)

partial_state_dict(x) ==
    StateDictOf(<< <<PyStr("args"), x.args>>, <<PyStr("keywords"), x.keywords>> >>, <<>>)

\* To-state functions a caller of register_serialization_state supplies.
\* user_tagged returns {"user": "tagged"}, user_int_key returns {0: "tagged"},
\* user_nested_int_key returns {"user": {0: "tagged"}} built without
\* to_state_dict.
UserToStateFns == {"user_tagged", "user_int_key", "user_nested_int_key"}

\* ty_to_state_dict(target) for the function registered under the name fn.
ApplyToStateDict(fn, x) ==
    CASE fn = "_list_state_dict" -> list_state_dict(x)
      [] fn = "_dict_state_dict" -> dict_state_dict(x)
      [] fn = "_namedtuple_state_dict" -> namedtuple_state_dict(x)
      [] fn = "_partial_state_dict" -> partial_state_dict(x)
      [] fn = "user_tagged" -> PyDict(<< <<PyStr("user"), PyStr("tagged")>> >>)
      [] fn = "user_int_key" -> PyDict(<< <<PyInt(0), PyStr("tagged")>> >>)
      [] fn = "user_nested_int_key" ->
            PyDict(<< <<PyStr("user"), PyDict(<< <<PyInt(0), PyStr("tagged")>> >>)>> >>)

\* to_state_dict without the key check of lines 74-80.
UncheckedStateDict(state_dict) == state_dict

\* The key check of to_state_dict on what the to-state function returned.
CheckedStateDict(state_dict) ==
    IF IsRaise(state_dict) THEN state_dict
    ELSE IF IsDict(state_dict) /\ \E k \in DictKeys(state_dict.kv) : k.ty # "str"
         THEN Raise("ValueError", "a state dict must only have string keys")
         ELSE state_dict

to_state_dict(x) ==
    LET ty == TypeTag(x)
    IN  IF ty \notin DOMAIN STATE_DICT_REGISTRY THEN x
        ELSE CheckedStateDict(ApplyToStateDict(STATE_DICT_REGISTRY[ty][1], x))

-----------------------------------------------------------------------------
(* The path context.                                                       *)

\* An _ErrorContext that is a plain object: one slot for all threads.
SharedSlot(t) == "t1"

\* _ErrorContext is a threading.local: a thread reads and writes the
\* attributes stored under its own slot.
ThreadLocal(t) == t

\* current_path() read once the name of the failing call is popped.
current_path_after_pop(t) ==
    Join(SubSeq(error_context[ThreadLocal(t)], 1, Len(error_context[ThreadLocal(t)]) - 1))

\* current_path(), evaluated by thread t.
current_path(t) == Join(error_context[ThreadLocal(t)])

\* _record_path, entry: _error_context.path.append(name).
record_path_enter(path, name) == Append(path, name)

\* _record_path without try/finally: the pop is skipped when the body raises.
record_path_exit_no_finally(path, raised) ==
    IF raised THEN path ELSE SubSeq(path, 1, Len(path) - 1)

\* _record_path, exit: the finally clause pops, whether the body returned
\* (raised = FALSE) or raised (raised = TRUE).
record_path_exit(path, raised) == SubSeq(path, 1, Len(path) - 1)

-----------------------------------------------------------------------------
(* The from-state functions.  A from_state_dict call is a frame            *)
(* [target, state, name, phase, i, acc]: phase "entry" before the lookup   *)
(* of the registry, "check" once the name is on the path and the           *)
(* from-state function starts, "loop" while it converts its children; i is *)
(* the next child and acc the children converted so far.                   *)

Frame(x, sd, name) ==
    [ty |-> "frame", target |-> x, state |-> sd, name |-> name, phase |-> "entry",
     i |-> 1, acc |-> <<>>]

\* len(x), or the TypeError of a value without a length.
HasLen(x) == x.ty \in {"dict", "OrderedDict", "list", "tuple", "str", "namedtuple"}
PyLen(x) ==
    CASE x.ty \in {"dict", "OrderedDict"} -> Len(x.kv)
      [] x.ty \in {"list", "tuple"} -> Len(x.xs)
      [] x.ty = "namedtuple" -> Len(x.vals)
      [] x.ty = "str" -> Len(x.s)

\* x[key] for a str key: the item of a dict, KeyError when the dict has no
\* such key, TypeError for every other kind of value.
Subscript(x, key) ==
    IF IsDict(x)
    THEN IF DictHas(x.kv, key) THEN DictGet(x.kv, key) ELSE Raise("KeyError", key.s)
    ELSE Raise("TypeError", "not subscriptable with a str")

\* _restore_list, lines 136-140.
restore_list_check(t, xs, state_dict) ==
    IF ~HasLen(state_dict) THEN Raise("TypeError", "object has no len()")
    ELSE IF PyLen(state_dict) # Len(xs.xs)
         THEN RaiseAt("ValueError", "the size of the list and the state dict do not match",
                      current_path(t))
         ELSE PyNone

\* _restore_dict, lines 154-160.
restore_dict_check(t, xs, state_dict) ==
    IF ~IsDict(state_dict) THEN Raise("AttributeError", "object has no attribute keys")
    ELSE LET diff == {PyStr(str(k)) : k \in DictKeys(xs.kv)} \ DictKeys(state_dict.kv)
         IN  IF diff # {}
             THEN RaiseAt("ValueError",
                          "the target dict keys and state dict keys do not match",
                          current_path(t))
             ELSE PyNone

\* _restore_namedtuple testing only for keys that are no fields.
restore_namedtuple_check_extra_only(t, xs, state_dict) ==
    IF ~IsDict(state_dict) THEN Raise("AttributeError", "object has no attribute keys")
    ELSE IF DictKeys(state_dict.kv) \ {PyStr(xs.fields[j]) : j \in DOMAIN xs.fields} # {}
         THEN RaiseAt("ValueError",
                      "the field names of the state dict and the named tuple do not match",
                      current_path(t))
         ELSE PyNone

\* _restore_namedtuple, lines 172-178.
restore_namedtuple_check(t, xs, state_dict) ==
    IF ~IsDict(state_dict) THEN Raise("AttributeError", "object has no attribute keys")
    ELSE LET state_keys == DictKeys(state_dict.kv)
             namedtuple_keys == {PyStr(xs.fields[j]) : j \in DOMAIN xs.fields}
         IN  IF state_keys # namedtuple_keys
             THEN RaiseAt("ValueError",
                          "the field names of the state dict and the named tuple do not match",
                          current_path(t))
             ELSE PyNone

\* What the from-state function fn does before it converts a child: PyNone
\* when it goes on, otherwise the exception it raises.
DecodeCheck(fn, t, xs, state_dict) ==
    CASE fn \in {"_restore_list", "_restore_tuple"} -> restore_list_check(t, xs, state_dict)
      [] fn = "_restore_dict" -> restore_dict_check(t, xs, state_dict)
      [] fn = "_restore_namedtuple" -> restore_namedtuple_check(t, xs, state_dict)
      [] fn = "_restore_partial" -> PyNone

\* The number of nested from_state_dict calls the from-state function makes.
NumChildren(fn, xs, state_dict) ==
    CASE fn \in {"_restore_list", "_restore_tuple"} -> Len(xs.xs)
      [] fn = "_restore_dict" -> Len(xs.kv)
      [] fn = "_restore_namedtuple" -> Len(state_dict.kv)
      [] fn = "_restore_partial" -> 2

\* getattr(xs, field) of a namedtuple.
GetField(xs, field) == xs.vals[CHOOSE j \in DOMAIN xs.fields : xs.fields[j] = field]

\* The i-th nested call: the frame it starts, or the exception that
\* evaluating its arguments raises.
ChildCall(fn, xs, state_dict, i) ==
    CASE fn \in {"_restore_list", "_restore_tuple"} ->
            LET sub == Subscript(state_dict, PyStr(IntToStr(i - 1)))
            IN  IF IsRaise(sub) THEN sub ELSE Frame(xs.xs[i], sub, IntToStr(i - 1))
      [] fn = "_restore_dict" ->
            LET key == xs.kv[i][1]
                sub == Subscript(state_dict, PyStr(str(key)))
            IN  IF IsRaise(sub) THEN sub ELSE Frame(xs.kv[i][2], sub, str(key))
      [] fn = "_restore_namedtuple" ->
            LET k == state_dict.kv[i][1]
            IN  Frame(GetField(xs, k.s), state_dict.kv[i][2], k.s)
      [] fn = "_restore_partial" ->
            LET sub == Subscript(state_dict, PyStr(IF i = 1 THEN "args" ELSE "keywords"))
            IN  IF IsRaise(sub) THEN sub
                ELSE Frame(IF i = 1 THEN xs.args ELSE xs.keywords, sub, ".")

\* _restore_list, line 141: the list of the converted children.
restore_list_result(xs, state_dict, acc) == PyList(acc)

\* The tuple from-state function, line 188.
restore_tuple_result(xs, state_dict, acc) == PyTuple(acc)

\* _restore_dict keyed by str(key) in place of key.
restore_dict_result_str_keys(xs, state_dict, acc) ==
    PyDict([i \in DOMAIN xs.kv |-> <<PyStr(str(xs.kv[i][1])), acc[i]>>])

\* _restore_dict, lines 161-164: the target's own keys, in the target's order.
restore_dict_result(xs, state_dict, acc) ==
    PyDict([i \in DOMAIN xs.kv |-> <<xs.kv[i][1], acc[i]>>])

\* _restore_namedtuple, lines 179-180: type(xs)(**fields), the fields having
\* been converted in the order of the state dict's items.
restore_namedtuple_result(xs, state_dict, acc) ==
    LET pos(f) == CHOOSE i \in DOMAIN state_dict.kv : state_dict.kv[i][1] = PyStr(f)
    IN  PyNamedTuple(xs.cls, xs.fields, [j \in DOMAIN xs.fields |-> acc[pos(xs.fields[j])]])

\* The Partial from-state function, lines 194-198.
restore_partial_result(x, sd, acc) ==
    [ty |-> "Partial", func |-> x.func, args |-> acc[1], keywords |-> acc[2]]

\* The value the from-state function returns once its children are converted.
DecodeResult(fn, xs, state_dict, acc) ==
    CASE fn = "_restore_list" -> restore_list_result(xs, state_dict, acc)
      [] fn = "_restore_tuple" -> restore_tuple_result(xs, state_dict, acc)
      [] fn = "_restore_dict" -> restore_dict_result(xs, state_dict, acc)
      [] fn = "_restore_namedtuple" -> restore_namedtuple_result(xs, state_dict, acc)
      [] fn = "_restore_partial" -> restore_partial_result(xs, state_dict, acc)

-----------------------------------------------------------------------------
(* register_serialization_state.                                           *)

\* register_serialization_state that ignores override.
register_ignoring_override(ty, ty_to_state_dict, ty_from_state_dict, override) ==
    IF ty \in DOMAIN STATE_DICT_REGISTRY
    THEN [raised |-> TRUE, registry |-> STATE_DICT_REGISTRY]
    ELSE [raised |-> FALSE,
          registry |-> [tag \in DOMAIN STATE_DICT_REGISTRY \cup {ty} |->
                          IF tag = ty THEN <<ty_to_state_dict, ty_from_state_dict>>
                          ELSE STATE_DICT_REGISTRY[tag]]]

\* Whether the call raises its ValueError, and the registry it leaves.
register_serialization_state(ty, ty_to_state_dict, ty_from_state_dict, override) ==
    IF ty \in DOMAIN STATE_DICT_REGISTRY /\ ~override
    THEN [raised |-> TRUE, registry |-> STATE_DICT_REGISTRY]
    ELSE [raised |-> FALSE,
          registry |-> [tag \in DOMAIN STATE_DICT_REGISTRY \cup {ty} |->
                          IF tag = ty THEN <<ty_to_state_dict, ty_from_state_dict>>
                          ELSE STATE_DICT_REGISTRY[tag]]]

-----------------------------------------------------------------------------
(* The values the threads convert.                                         *)

\* [1, ..., n] as Python ints.
Ints(n) == [i \in 1..n |-> PyInt(i)]

\* An instance of a user class that nobody registered.
Opaque == [ty |-> "object", cls |-> "Custom", v |-> 7]

Leaves == {PyInt(1), Opaque, PyOrderedDict(<< <<PyInt(1), PyInt(2)>> >>)}

Point(x, y) == PyNamedTuple("Point", <<"x", "y">>, <<x, y>>)

Flat ==
    {PyList(Ints(n)) : n \in 0..MaxLen}
    \cup {PyTuple(Ints(MaxLen))}
    \cup {PyDict(<< <<PyStr("a"), PyInt(1)>>, <<PyStr("b"), PyInt(2)>> >>),
          PyDict(<< <<PyInt(1), PyInt(1)>>, <<PyStr("a"), PyInt(2)>> >>),
          PyDict(<< <<PyInt(1), PyInt(1)>>, <<PyStr("1"), PyInt(2)>> >>),
          PyDict(<<>>),
          Point(PyInt(1), PyInt(2)),
          PyPartial("f", <<PyInt(1)>>, << <<PyStr("k"), PyInt(2)>> >>)}

\* One more level of nesting around x, one way for each registered type.
Wrapped(x) ==
    {PyList(<<PyInt(0), x>>),
     PyTuple(<<x>>),
     PyDict(<< <<PyStr("outer"), x>> >>),
     Point(x, PyInt(2)),
     PyPartial("f", <<x>>, <<>>)}

Nested == UNION {Wrapped(x) : x \in Flat \cup {Opaque}}

\* {"outer": {"inner": [1, ..., n]}}
Deep ==
    {PyDict(<< <<PyStr("outer"), PyDict(<< <<PyStr("inner"), PyList(Ints(n))>> >>)>> >>)
        : n \in 1..MaxLen}

Targets == Leaves \cup Flat \cup Nested \cup Deep

\* The second thread converts a few values only.
TargetsOf(t) ==
    IF t = "t1" THEN Targets
    ELSE {PyInt(1), PyDict(<< <<PyStr("outer"), PyList(Ints(1))>> >>)}

\* State dicts that differ from a given one.  At the top: an item less, an
\* item more, the last key renamed, the items in the opposite order, and a
\* value that is no dict.  Below: the same, for one item's value.
Stranger == PyInt(9)

Mutilated(sd) ==
    LET n == Len(sd.kv)
    IN  {PyDict(Append(sd.kv, <<PyStr("zz"), Stranger>>)), Stranger}
        \cup (IF n = 0 THEN {}
              ELSE {PyDict(SubSeq(sd.kv, 1, n - 1)),
                    PyDict([sd.kv EXCEPT ![n] = <<PyStr("zz"), sd.kv[n][2]>>]),
                    PyDict([i \in 1..n |-> sd.kv[n + 1 - i]])})

RECURSIVE Variants(_)
Variants(sd) ==
    IF sd.ty # "dict" THEN {sd, Stranger}
    ELSE {sd} \cup Mutilated(sd)
         \cup UNION {{PyDict([sd.kv EXCEPT ![i] = <<sd.kv[i][1], v>>]) :
                        v \in Variants(sd.kv[i][2])} : i \in DOMAIN sd.kv}

\* The states a thread may hand to from_state_dict along with its target: the
\* state dict of the target and its variants, or, when to_state_dict raised,
\* the variants of a one-item state dict.
StatesFor(t, enc) ==
    LET base == IF IsRaise(enc) THEN PyDict(<< <<PyStr("1"), Stranger>> >>) ELSE enc
    IN  IF t = "t1"
        THEN Variants(base)
             \cup (IF IsDict(base) THEN {} ELSE {PyDict(<< <<PyStr("zz"), Stranger>> >>)})
        ELSE {base, PyDict(<< <<PyStr("outer"), PyDict(<<>>)>> >>)}

-----------------------------------------------------------------------------
(* The state machine.                                                      *)

Init ==
    /\ STATE_DICT_REGISTRY = BuiltinRegistry
    /\ error_context = [slot \in Threads |-> <<>>]
    /\ pc = [t \in Threads |-> "idle"]
    /\ target = [t \in Threads |-> PyNone]
    /\ encoded = [t \in Threads |-> PyNone]
    /\ state = [t \in Threads |-> PyNone]
    /\ stack = [t \in Threads |-> <<>>]
    /\ result = [t \in Threads |-> PyNone]
    /\ touched = [t \in Threads |-> 0]
    /\ raised_in = [t \in Threads |-> <<>>]
    /\ encoded_at = [t \in Threads |-> 0]
    /\ reg_log = <<>>

Top(t) == stack[t][Len(stack[t])]
Popped(t) == SubSeq(stack[t], 1, Len(stack[t]) - 1)
Registered(x) == TypeTag(x) \in DOMAIN STATE_DICT_REGISTRY
FromFn(x) == STATE_DICT_REGISTRY[TypeTag(x)][2]

\* The names of the calls of a stack that have put their name on the path.
ActiveNames(stk) ==
    LET RECURSIVE names(_)
        names(i) ==
            IF i > Len(stk) THEN <<>>
            ELSE IF stk[i].phase = "entry" THEN names(i + 1)
            ELSE <<stk[i].name>> \o names(i + 1)
    IN  names(1)

\* from_state_dict returning the target for an unregistered target.
from_state_dict_returns_target(x, sd) == x

\* from_state_dict, lines 101-102: what it returns for an unregistered target.
from_state_dict_unregistered(x, sd) == sd

\* A call of thread t returns v to its caller: the top-level caller gets the
\* result, a from-state function goes on with its next child.
ReturnTo(t, v) ==
    IF Len(stack[t]) = 1
    THEN /\ stack' = [stack EXCEPT ![t] = <<>>]
         /\ result' = [result EXCEPT ![t] = v]
         /\ pc' = [pc EXCEPT ![t] = "done"]
    ELSE /\ stack' = [stack EXCEPT ![t] =
                        [Popped(t) EXCEPT ![Len(stack[t]) - 1] =
                            [@ EXCEPT !.acc = Append(@, v), !.i = @ + 1]]]
         /\ UNCHANGED <<result, pc>>

\* An exception starts to propagate in thread t.
RaiseIn(t, exc) ==
    /\ pc' = [pc EXCEPT ![t] = "raising"]
    /\ result' = [result EXCEPT ![t] = exc]
    /\ raised_in' = [raised_in EXCEPT ![t] = ActiveNames(stack[t])]

\* Thread t calls to_state_dict(x).
ToStateDictCall(t, x) ==
    /\ pc[t] \in {"idle", "encoded"}
    /\ target' = [target EXCEPT ![t] = x]
    /\ encoded' = [encoded EXCEPT ![t] = to_state_dict(x)]
    /\ encoded_at' = [encoded_at EXCEPT ![t] = Len(reg_log)]
    /\ pc' = [pc EXCEPT ![t] = "encoded"]
    /\ UNCHANGED <<STATE_DICT_REGISTRY, error_context, state, stack, result,
                   touched, raised_in, reg_log>>

\* Thread t calls from_state_dict(target, sd), the name left at its default.
FromStateDictCall(t, sd) ==
    /\ pc[t] = "encoded"
    /\ state' = [state EXCEPT ![t] = sd]
    /\ stack' = [stack EXCEPT ![t] = <<Frame(target[t], sd, ".")>>]
    /\ pc' = [pc EXCEPT ![t] = "decoding"]
    /\ UNCHANGED <<STATE_DICT_REGISTRY, error_context, target, encoded, result,
                   touched, raised_in, encoded_at, reg_log>>

\* from_state_dict, lines 97-102: the target's type is not registered.
PassThrough(t) ==
    /\ pc[t] = "decoding"
    /\ Top(t).phase = "entry"
    /\ ~Registered(Top(t).target)
    /\ ReturnTo(t, from_state_dict_unregistered(Top(t).target, Top(t).state))
    /\ UNCHANGED <<STATE_DICT_REGISTRY, error_context, target, encoded, state,
                   touched, raised_in, encoded_at, reg_log>>

\* from_state_dict, lines 103-104: the target's type is registered, and
\* _record_path appends the name.
EnterRecordPath(t) ==
    /\ pc[t] = "decoding"
    /\ Top(t).phase = "entry"
    /\ Registered(Top(t).target)
    /\ error_context' = [error_context EXCEPT ![ThreadLocal(t)] =
                            record_path_enter(@, Top(t).name)]
    /\ touched' = [touched EXCEPT ![t] = @ + 1]
    /\ stack' = [stack EXCEPT ![t][Len(stack[t])].phase = "check"]
    /\ UNCHANGED <<STATE_DICT_REGISTRY, pc, target, encoded, state, result,
                   raised_in, encoded_at, reg_log>>

\* The from-state function validates the state against the target.
Validate(t) ==
    /\ pc[t] = "decoding"
    /\ Top(t).phase = "check"
    /\ LET r == DecodeCheck(FromFn(Top(t).target), t, Top(t).target, Top(t).state)
       IN  IF IsRaise(r)
           THEN RaiseIn(t, r) /\ UNCHANGED stack
           ELSE /\ stack' = [stack EXCEPT ![t][Len(stack[t])].phase = "loop"]
                /\ UNCHANGED <<pc, result, raised_in>>
    /\ UNCHANGED <<STATE_DICT_REGISTRY, error_context, target, encoded, state,
                   touched, encoded_at, reg_log>>

\* The from-state function calls from_state_dict for its next child.
CallChild(t) ==
    /\ pc[t] = "decoding"
    /\ Top(t).phase = "loop"
    /\ Top(t).i <= NumChildren(FromFn(Top(t).target), Top(t).target, Top(t).state)
    /\ LET c == ChildCall(FromFn(Top(t).target), Top(t).target, Top(t).state, Top(t).i)
       IN  IF IsRaise(c)
           THEN RaiseIn(t, c) /\ UNCHANGED stack
           ELSE /\ stack' = [stack EXCEPT ![t] = Append(@, c)]
                /\ UNCHANGED <<pc, result, raised_in>>
    /\ UNCHANGED <<STATE_DICT_REGISTRY, error_context, target, encoded, state,
                   touched, encoded_at, reg_log>>

\* The from-state function returns; _record_path pops the name.
ReturnValue(t) ==
    /\ pc[t] = "decoding"
    /\ Top(t).phase = "loop"
    /\ Top(t).i > NumChildren(FromFn(Top(t).target), Top(t).target, Top(t).state)
    /\ error_context' = [error_context EXCEPT ![ThreadLocal(t)] =
                            record_path_exit(@, FALSE)]
    /\ touched' = [touched EXCEPT ![t] = @ + 1]
    /\ ReturnTo(t, DecodeResult(FromFn(Top(t).target), Top(t).target, Top(t).state,
                                Top(t).acc))
    /\ UNCHANGED <<STATE_DICT_REGISTRY, target, encoded, state, raised_in,
                   encoded_at, reg_log>>

\* The exception leaves one more from_state_dict call; _record_path's finally
\* clause runs.
Unwind(t) ==
    /\ pc[t] = "raising"
    /\ stack[t] # <<>>
    /\ LET path == record_path_exit(error_context[ThreadLocal(t)], TRUE)
       IN  /\ error_context' = [error_context EXCEPT ![ThreadLocal(t)] = path]
           \* one more pop, when the exit popped
           /\ touched' = [touched EXCEPT ![t] =
                            IF path = error_context[ThreadLocal(t)] THEN @ ELSE @ + 1]
    /\ stack' = [stack EXCEPT ![t] = Popped(t)]
    /\ pc' = [pc EXCEPT ![t] = IF Len(stack[t]) = 1 THEN "done" ELSE "raising"]
    /\ UNCHANGED <<STATE_DICT_REGISTRY, target, encoded, state, result, raised_in,
                   encoded_at, reg_log>>

\* A call of register_serialization_state.
Register(ty, ty_to_state_dict, ty_from_state_dict, override) ==
    /\ Len(reg_log) < MaxRegs
    /\ LET r == register_serialization_state(ty, ty_to_state_dict, ty_from_state_dict,
                                             override)
       IN  /\ STATE_DICT_REGISTRY' = r.registry
           /\ reg_log' = Append(reg_log,
                                [ty |-> ty, fns |-> <<ty_to_state_dict, ty_from_state_dict>>,
                                 override |-> override, raised |-> r.raised])
    /\ UNCHANGED <<error_context, pc, target, encoded, state, stack, result,
                   touched, raised_in, encoded_at>>

\* Conversions by the threads, the registry as the module leaves it.
Next ==
    \E t \in Threads :
        \/ \E x \in TargetsOf(t) : ToStateDictCall(t, x)
        \/ \E sd \in StatesFor(t, encoded[t]) : FromStateDictCall(t, sd)
        \/ PassThrough(t)
        \/ EnterRecordPath(t)
        \/ Validate(t)
        \/ CallChild(t)
        \/ ReturnValue(t)
        \/ Unwind(t)

Spec == Init /\ [][Next]_vars

\* Registrations by one thread, each followed by calls of to_state_dict.
RegTags == {"list", "Custom"}
UserFromStateFns == {"user_restore"}
Probes ==
    {PyList(Ints(1)), Opaque, PyDict(<< <<PyStr("outer"), Opaque>> >>),
     PyDict(<< <<PyInt(1), PyList(<<Opaque>>)>> >>),
     PyList(<<PyOrderedDict(<< <<PyInt(1), PyInt(2)>> >>)>>)}

NextReg ==
    \/ \E ty \in RegTags, f \in UserToStateFns \cup {"_list_state_dict"},
          g \in UserFromStateFns, override \in BOOLEAN : Register(ty, f, g, override)
    \/ \E x \in Probes : ToStateDictCall("t1", x)

SpecReg == Init /\ [][NextReg]_vars

-----------------------------------------------------------------------------
(* Vocabulary of the properties.                                           *)

Done(t) == pc[t] = "done"
Called(t) == pc[t] # "idle"

\* The values directly inside a value of a built-in container type.
Children(x) ==
    CASE x.ty \in {"list", "tuple"} -> x.xs
      [] x.ty = "dict" -> [i \in DOMAIN x.kv |-> x.kv[i][2]]
      [] x.ty = "namedtuple" -> x.vals
      [] x.ty = "Partial" -> <<x.args, x.keywords>>
      [] OTHER -> <<>>

\* Some dict inside x has two keys with the same string form.
RECURSIVE HasKeyCollision(_)
HasKeyCollision(x) ==
    \/ /\ x.ty = "dict"
       /\ \E i, j \in DOMAIN x.kv : i # j /\ str(x.kv[i][1]) = str(x.kv[j][1])
    \/ \E i \in DOMAIN Children(x) : HasKeyCollision(Children(x)[i])

\* Some leaf of x is a mapping of a type other than dict.
RECURSIVE HasMappingLeaf(_)
HasMappingLeaf(x) ==
    \/ x.ty = "OrderedDict"
    \/ \E i \in DOMAIN Children(x) : HasMappingLeaf(Children(x)[i])

\* Every key of every mapping inside x, at every level, is a str.
RECURSIVE AllKeysStr(_)
AllKeysStr(x) ==
    /\ IsDict(x) => \A k \in DictKeys(x.kv) : k.ty = "str"
    /\ IsDict(x) => \A i \in DOMAIN x.kv : AllKeysStr(x.kv[i][2])
    /\ \A i \in DOMAIN Children(x) : AllKeysStr(Children(x)[i])

\* r has the shape of x: at every value of a built-in container type, the
\* same type, the same length, the same keys and the same field names.
RECURSIVE SameShape(_, _)
SameShape(x, r) ==
    CASE x.ty \in {"list", "tuple"} ->
            /\ r.ty = x.ty
            /\ Len(r.xs) = Len(x.xs)
            /\ \A i \in DOMAIN x.xs : SameShape(x.xs[i], r.xs[i])
      [] x.ty = "dict" ->
            /\ r.ty = "dict"
            /\ [i \in DOMAIN r.kv |-> r.kv[i][1]] = [i \in DOMAIN x.kv |-> x.kv[i][1]]
            /\ \A i \in DOMAIN x.kv : SameShape(x.kv[i][2], r.kv[i][2])
      [] x.ty = "namedtuple" ->
            /\ r.ty = "namedtuple"
            /\ r.cls = x.cls
            /\ r.fields = x.fields
            /\ Len(r.vals) = Len(x.vals)
            /\ \A i \in DOMAIN x.vals : SameShape(x.vals[i], r.vals[i])
      [] x.ty = "Partial" ->
            /\ r.ty = "Partial"
            /\ r.func = x.func
            /\ SameShape(x.args, r.args)
            /\ SameShape(x.keywords, r.keywords)
      [] OTHER -> TRUE

KeyCollisionError ==
    Raise("ValueError", "dict keys do not have a unique string representation")
InvalidKeyError == Raise("ValueError", "a state dict must only have string keys")
MismatchMessages ==
    {"the size of the list and the state dict do not match",
     "the target dict keys and state dict keys do not match",
     "the field names of the state dict and the named tuple do not match"}

-----------------------------------------------------------------------------
(* The claims.                                                             *)

\* C1, as stated: for every target built of the registered types,
\* to_state_dict(t) returns and from_state_dict(t, to_state_dict(t)) equals t.
C1_RoundTripOfAnyTarget ==
    \A t \in Threads :
        /\ Called(t) => ~IsRaise(encoded[t])
        /\ Done(t) /\ state[t] = encoded[t] => result[t] = target[t]

\* C1, amended: to_state_dict(t) raises only when some dict inside t has two
\* keys with the same string form, and whenever it returns,
\* from_state_dict(t, to_state_dict(t)) returns a value equal to t.
C1_RoundTrip ==
    \A t \in Threads :
        /\ Called(t) /\ IsRaise(encoded[t]) => HasKeyCollision(target[t])
        /\ Done(t) /\ state[t] = encoded[t] => result[t] = target[t]

\* C1: the round trip of a namedtuple that holds a Partial has been made.
C1_Witness ==
    /\ Done("t1")
    /\ target["t1"] = Point(PyPartial("f", <<PyInt(1)>>, << <<PyStr("k"), PyInt(2)>> >>),
                            PyInt(2))
    /\ state["t1"] = encoded["t1"]
    /\ result["t1"] = target["t1"]

\* C5: a from_state_dict call that returns for a target of a built-in
\* container type returns a value with the target's shape (type, length,
\* original keys, field names), at every level, whatever the state holds.
C5_TargetShapeIsTruth ==
    \A t \in Threads :
        Done(t) /\ ~IsRaise(result[t]) /\ Registered(target[t])
            => SameShape(target[t], result[t])

\* C5: from_state_dict has returned for a dict target with an int key and a
\* state dict that holds more items than the target and other leaves.
C5_Witness ==
    /\ Done("t1")
    /\ ~IsRaise(result["t1"])
    /\ target["t1"] = PyDict(<< <<PyInt(1), PyInt(1)>>, <<PyStr("a"), PyInt(2)>> >>)
    /\ Len(state["t1"].kv) > Len(target["t1"].kv)
    /\ result["t1"] = target["t1"]

\* C6: to_state_dict of a target in which a dict has two keys with the same
\* string form raises the key-collision ValueError and returns no state dict.
C6_KeyCollisionRaises ==
    \A t \in Threads :
        Called(t) /\ HasKeyCollision(target[t]) => encoded[t] = KeyCollisionError

\* C6: to_state_dict was called on {1: 1, "1": 2} nested in a list.
C6_Witness ==
    /\ pc["t1"] = "encoded"
    /\ target["t1"] = PyList(<<PyInt(0), PyDict(<< <<PyInt(1), PyInt(1)>>,
                                                  <<PyStr("1"), PyInt(2)>> >>)>>)
    /\ IsRaise(encoded["t1"])

FieldNames(x) == {PyStr(x.fields[j]) : j \in DOMAIN x.fields}
FieldMismatchAt(path) ==
    RaiseAt("ValueError",
            "the field names of the state dict and the named tuple do not match", path)

\* C7: the from-state function of a namedtuple target goes past its check
\* only when the state's key set equals the field-name set; a top-level call
\* whose state dict has a key too many or a field too few ends with the
\* field-mismatch ValueError.
C7_FieldMismatchBothWays ==
    \A t \in Threads :
        /\ \A i \in DOMAIN stack[t] :
                is_namedtuple(stack[t][i].target) /\ stack[t][i].phase = "loop"
                    => /\ IsDict(stack[t][i].state)
                       /\ DictKeys(stack[t][i].state.kv) = FieldNames(stack[t][i].target)
        /\ /\ Done(t)
           /\ is_namedtuple(target[t])
           /\ IsDict(state[t])
           /\ DictKeys(state[t].kv) # FieldNames(target[t])
           => result[t] = FieldMismatchAt(".")

\* C7: a top-level call for a namedtuple target has failed on a state dict
\* that lacks a field.
C7_Witness ==
    /\ Done("t1")
    /\ is_namedtuple(target["t1"])
    /\ IsDict(state["t1"])
    /\ DictKeys(state["t1"].kv) \subseteq FieldNames(target["t1"])
    /\ DictKeys(state["t1"].kv) # FieldNames(target["t1"])
    /\ result["t1"] = FieldMismatchAt(".")

\* C8: for a target of an unregistered type, to_state_dict returns the target
\* and from_state_dict returns the state, whatever the state is, without
\* raising and without an append or a pop on the path.
C8_PassThrough ==
    \A t \in Threads :
        Called(t) /\ ~Registered(target[t])
            => /\ encoded[t] = target[t]
               /\ pc[t] # "raising"
               /\ touched[t] = 0
               /\ error_context[t] = <<>>
               /\ Done(t) => result[t] = state[t]

\* C8: from_state_dict has returned for an instance of an unregistered class
\* and a state that is a dict.
C8_Witness ==
    /\ Done("t1")
    /\ target["t1"] = Opaque
    /\ encoded["t1"] = Opaque
    /\ IsDict(state["t1"])
    /\ result["t1"] = state["t1"]

\* The state dict handed over for {"outer": {"inner": [..]}} has a dict
\* under outer/inner whose size is not the size of the target's list.
InnerSizeDiffers(x, sd) ==
    /\ IsDict(sd)
    /\ DictHas(sd.kv, PyStr("outer"))
    /\ IsDict(DictGet(sd.kv, PyStr("outer")))
    /\ DictHas(DictGet(sd.kv, PyStr("outer")).kv, PyStr("inner"))
    /\ LET inner == DictGet(DictGet(sd.kv, PyStr("outer")).kv, PyStr("inner"))
       IN  /\ IsDict(inner)
           /\ Len(inner.kv) # Len(x.kv[1][2].kv[1][2].xs)

\* C4: the message of every size, key and field mismatch raised during
\* from_state_dict holds the names of the calls active at the raise, outermost
\* first, joined by "/"; a size mismatch of the list inside
\* {"outer": {"inner": [..]}} is reported at ./outer/inner.
C4_PathInErrorMessage ==
    \A t \in Threads :
        /\ /\ pc[t] \in {"raising", "done"}
           /\ IsRaise(result[t])
           /\ result[t].what \in MismatchMessages
           => /\ result[t].has_path
              /\ result[t].path = Join(raised_in[t])
        /\ Done(t) /\ target[t] \in Deep /\ InnerSizeDiffers(target[t], state[t])
           => result[t] = RaiseAt("ValueError",
                                  "the size of the list and the state dict do not match",
                                  "./outer/inner")

\* C4: the size mismatch at ./outer/inner has been raised.
C4_Witness ==
    /\ Done("t1")
    /\ target["t1"] \in Deep
    /\ InnerSizeDiffers(target["t1"], state["t1"])
    /\ IsRaise(result["t1"])
    /\ raised_in["t1"] = <<".", "outer", "inner">>

\* C9: while from_state_dict runs, the thread's path holds one name for each
\* of its calls that entered _record_path, and after the top-level call has
\* returned or raised the path is empty again, as it was before the call, the
\* appends and the pops being as many.
C9_PathStackBalanced ==
    \A t \in Threads :
        /\ pc[t] \in {"decoding", "raising"}
            => Len(error_context[t]) = Len(ActiveNames(stack[t]))
        /\ pc[t] \in {"idle", "encoded", "done"} => error_context[t] = <<>>
        /\ Done(t) => touched[t] % 2 = 0

\* C9: a top-level call has ended with an exception raised three calls deep.
C9_Witness ==
    /\ Done("t1")
    /\ IsRaise(result["t1"])
    /\ Len(raised_in["t1"]) = 3
    /\ touched["t1"] = 6
    /\ error_context["t1"] = <<>>

\* C10: in every interleaving, what current_path() gives a thread is the
\* names of that thread's own active calls, outermost first, and nothing of
\* another thread.
C10_PathIsolation ==
    \A t \in Threads :
        pc[t] \in {"decoding", "raising"}
            => current_path(t) = Join(ActiveNames(stack[t]))

\* C10: two threads are inside from_state_dict at once, each with names of
\* its own on its path.
C10_Witness ==
    /\ pc["t1"] = "decoding"
    /\ pc["t2"] = "decoding"
    /\ ActiveNames(stack["t1"]) = <<".", "1">>
    /\ ActiveNames(stack["t2"]) = <<".", "outer">>
    /\ current_path("t1") = "./1"
    /\ current_path("t2") = "./outer"

\* The registry is still the one the thread's to_state_dict call read.
Fresh(t) == pc[t] = "encoded" /\ encoded_at[t] = Len(reg_log)

\* Every registered to-state function is one of the module's own.
BuiltinToStateFnsOnly ==
    \A tag \in DOMAIN STATE_DICT_REGISTRY : STATE_DICT_REGISTRY[tag][1] \notin UserToStateFns

\* C2, as stated: whatever to_state_dict returns holds str keys only, in
\* every mapping at every level.
C2_EveryKeyIsStr ==
    \A t \in Threads : Called(t) /\ ~IsRaise(encoded[t]) => AllKeysStr(encoded[t])

\* C2, amended: for a target of a registered type, to_state_dict raises when
\* the mapping its to-state function returned has a key that is no str, and
\* otherwise returns that very value, so the keys of the returned mapping
\* itself are all str; the keys of every nested mapping are str as well when
\* the registered to-state functions are the module's own and no leaf of the
\* target is a mapping of an unregistered type.
C2_StringKeys ==
    \A t \in Threads :
        /\ Fresh(t) /\ Registered(target[t])
            => LET raw == ApplyToStateDict(STATE_DICT_REGISTRY[TypeTag(target[t])][1],
                                           target[t])
               IN  IF ~IsRaise(raw) /\ IsDict(raw) /\ \E k \in DictKeys(raw.kv) : k.ty # "str"
                   THEN encoded[t] = InvalidKeyError
                   ELSE encoded[t] = raw
        /\ Fresh(t) /\ Registered(target[t]) /\ ~IsRaise(encoded[t]) /\ IsDict(encoded[t])
            => \A k \in DictKeys(encoded[t].kv) : k.ty = "str"
        /\ /\ Fresh(t)
           /\ BuiltinToStateFnsOnly
           /\ ~HasMappingLeaf(target[t])
           /\ ~IsRaise(encoded[t])
           => AllKeysStr(encoded[t])

\* C2: to_state_dict has raised for a key that is no str, found two levels
\* below the target it was called on.
C2_Witness ==
    /\ Fresh("t1")
    /\ target["t1"] = PyDict(<< <<PyInt(1), PyList(<<Opaque>>)>> >>)
    /\ encoded["t1"] = InvalidKeyError

\* The calls of register_serialization_state so far that did not raise and
\* were for the tag.
Accepted(tag) == {k \in DOMAIN reg_log : reg_log[k].ty = tag /\ ~reg_log[k].raised}
LastAccepted(tag) == CHOOSE k \in Accepted(tag) : \A j \in Accepted(tag) : j <= k
\* The tag had a converter pair before the k-th call.
PresentBefore(tag, k) ==
    tag \in DOMAIN BuiltinRegistry \/ \E j \in 1..(k - 1) : reg_log[j].ty = tag

\* C3: a register_serialization_state call raises exactly when its tag is
\* present and override is false, and then changes nothing; the registry
\* holds, for a tag, the pair of the last call for it that did not raise (the
\* module's own pair when there was none), and a to_state_dict call made
\* afterwards for a value of that tag applies the to-state function of that
\* pair.
C3_RegistrationOverride ==
    /\ \A k \in DOMAIN reg_log :
            reg_log[k].raised <=> (PresentBefore(reg_log[k].ty, k) /\ ~reg_log[k].override)
    /\ DOMAIN STATE_DICT_REGISTRY =
            DOMAIN BuiltinRegistry \cup {reg_log[k].ty : k \in DOMAIN reg_log}
    /\ \A tag \in DOMAIN STATE_DICT_REGISTRY :
            STATE_DICT_REGISTRY[tag] =
                IF Accepted(tag) = {} THEN BuiltinRegistry[tag]
                ELSE reg_log[LastAccepted(tag)].fns
    /\ \A t \in Threads :
            Fresh(t) /\ Accepted(TypeTag(target[t])) # {}
                => encoded[t] =
                    CheckedStateDict(ApplyToStateDict(
                        reg_log[LastAccepted(TypeTag(target[t]))].fns[1], target[t]))

\* C3: a registration for list without override has raised, one with
\* override has replaced the pair, and to_state_dict of a list has then
\* returned what the new to-state function returns.
C3_Witness ==
    /\ Len(reg_log) = 2
    /\ reg_log[1].ty = "list" /\ ~reg_log[1].override /\ reg_log[1].raised
    /\ reg_log[2].ty = "list" /\ reg_log[2].override /\ ~reg_log[2].raised
    /\ reg_log[2].fns[1] = "user_tagged"
    /\ Fresh("t1")
    /\ target["t1"] = PyList(Ints(1))
    /\ encoded["t1"] = PyDict(<< <<PyStr("user"), PyStr("tagged")>> >>)

=============================================================================
